---- MODULE Spec2Model ----
(***************************************************************************)
(* A state-machine model of DrawApp (src/draw_app.py): the annotation      *)
(* overlay, the pointer handlers, the bounded undo/redo history, zoom and  *)
(* pan, navigation with continuity saves, and the mask export of save().   *)
(*                                                                         *)
(* Text (file names, category names, inspector names) is a sequence of     *)
(* one-character strings, so that strip(), lower(), "-".join and glob      *)
(* matching are computed rather than assumed.  A raster is a record        *)
(* [w, h, px] with px a function from <<x, y>> to an <<r, g, b, a>> tuple. *)
(* The zoom factor, a Python float, is kept in thousandths (ZoomUnit).     *)
(***************************************************************************)
EXTENDS Integers, Sequences, FiniteSets, TLC

VARIABLES
    image_paths,    \* self.image_paths: sequence of [base, ext, w, h]
    defects,        \* self.defects: the vocabulary, an ordered list of names
    idx,            \* self.idx
    mode,           \* self.mode: "draw" | "erase"
    history,        \* self.history
    redo_stack,     \* self.redo_stack
    aliases,        \* which entries of history (.h) and redo_stack (.r), by index, are
                    \* the same Image object as self.layer
    pan_x, pan_y,   \* self.pan_x, self.pan_y
    zoom,           \* self.zoom, in thousandths
    drawing,        \* self.drawing
    current_pen,    \* self.current_pen
    pen_color,      \* self.pen_color
    layer,          \* self.layer (the Overlay)
    base,           \* self.base: the size [w, h] of the loaded image
    stroke_start,   \* (self.stroke_start_x, self.stroke_start_y), <<>> before the first press
    last_pt,        \* (self.last_x, self.last_y)
    pr,             \* (self._prx, self._pry), <<>> when None
    fill_var,       \* self.fill_var
    defect_vars,    \* self.defect_vars: name -> BOOLEAN
    pen_vars,       \* self.pen_vars: pen -> label text
    inspector_var,  \* self.inspector_var
    note_text,      \* self.note_text
    tray_var,       \* self.tray_var
    save_ts_var,    \* self.save_ts_var
    unsaved_clear,  \* self._unsaved_clear
    canvas_w, canvas_h, \* canvas.winfo_width(), canvas.winfo_height()
    masks_dir,      \* files of output_dir/masks, oldest modification first
    cat_dirs,       \* files of output_dir/<category>: category -> set of files
    metadata,       \* metadata.json: key -> record
    now,            \* the wall clock, in units of the timestamp formats
    closed,         \* the window was destroyed
    lastOp,         \* history variable: the handler branch that ran last ("undo_redo":
                    \* a redo that directly follows an undo that popped an entry)
    preLayer,       \* history variable: the Overlay before the last undo, navigation or close
    ev              \* history variable: ev.x, ev.y of the last primary-button press or motion

vars == <<image_paths, defects, idx, mode, history, redo_stack, aliases, pan_x, pan_y, zoom,
          drawing, current_pen, pen_color, layer, base, stroke_start, last_pt, pr,
          fill_var, defect_vars, pen_vars, inspector_var, note_text, tray_var,
          save_ts_var, unsaved_clear, canvas_w, canvas_h, masks_dir, cat_dirs,
          metadata, now, closed, lastOp, preLayer, ev>>

-----------------------------------------------------------------------------
(* Program constants *)

HISTORY_MAX == 50
PEN_WIDTH == 8
ERASE_WIDTH == 20
COLOR_TOL == 10
LEGEND_X == 5
\* the float 1.0 of self.zoom; the other zoom constants in the same unit
ZoomUnit == 1000
ZOOM_MIN == ZoomUnit \div 10
ZOOM_MAX == 10 * ZoomUnit
ZOOM_IN == (11 * ZoomUnit) \div 10
ZOOM_OUT == (9 * ZoomUnit) \div 10

Pens == {"pen1", "pen2", "pen3", "pen4", "pen5", "pen6"}
PenOrder == <<"pen1", "pen2", "pen3", "pen4", "pen5", "pen6">>

TRANSPARENT == <<0, 0, 0, 0>>

\* style_config.PEN1_COLOR .. PEN6_COLOR: red, blue, green, yellow, magenta, cyan
PenColor(k) ==
    CASE k = "pen1" -> <<255, 0, 0, 255>>
      [] k = "pen2" -> <<0, 0, 255, 255>>
      [] k = "pen3" -> <<0, 255, 0, 255>>
      [] k = "pen4" -> <<255, 255, 0, 255>>
      [] k = "pen5" -> <<255, 0, 255, 255>>
      [] k = "pen6" -> <<0, 255, 255, 255>>

-----------------------------------------------------------------------------
(* Text *)

chip == <<"c", "h", "i", "p">>
scratch == <<"s", "c", "r", "a", "t", "c", "h">>
gouge == <<"g", "o", "u", "g", "e">>
inclusion == <<"i", "n", "c", "l", "u", "s", "i", "o", "n">>
void == <<"v", "o", "i", "d">>
other == <<"o", "t", "h", "e", "r">>
good == <<"g", "o", "o", "d">>
unknown == <<"u", "n", "k", "n", "o", "w", "n">>
never == <<"n", "e", "v", "e", "r">>
COMBINED == <<"C", "O", "M", "B", "I", "N", "E", "D">>
PNG == <<".", "p", "n", "g">>

\* str.lower() on one character
LowerChar(c) ==
    CASE c = "C" -> "c"
      [] c = "H" -> "h"
      [] c = "I" -> "i"
      [] c = "P" -> "p"
      [] OTHER -> c

Lower(s) == [i \in 1..Len(s) |-> LowerChar(s[i])]

RECURSIVE LStrip(_)
LStrip(s) == IF s # <<>> /\ Head(s) = " " THEN LStrip(Tail(s)) ELSE s

RECURSIVE RStrip(_)
RStrip(s) ==
    IF s # <<>> /\ s[Len(s)] = " " THEN RStrip(SubSeq(s, 1, Len(s) - 1)) ELSE s

\* str.strip()
Strip(s) == RStrip(LStrip(s))

\* sep.join(parts)
RECURSIVE Join(_, _)
Join(parts, sep) ==
    IF parts = <<>> THEN <<>>
    ELSE IF Len(parts) = 1 THEN parts[1]
    ELSE parts[1] \o sep \o Join(Tail(parts), sep)

SeqToSet(s) == {s[i] : i \in 1..Len(s)}

\* glob / fnmatch: "*", "?", "[...]" and "[!...]" (no ranges), everything else literal
RECURSIVE ClassEnd(_, _)
ClassEnd(p, j) ==
    IF j > Len(p) THEN 0
    ELSE IF p[j] = "]" THEN j
    ELSE ClassEnd(p, j + 1)

\* the index of the "]" closing the class opened by p[1] = "[", 0 if there is none
ClassClose(p) ==
    LET j0 == IF Len(p) >= 2 /\ p[2] = "!" THEN 3 ELSE 2
        j1 == IF j0 <= Len(p) /\ p[j0] = "]" THEN j0 + 1 ELSE j0
    IN  ClassEnd(p, j1)

RECURSIVE GlobMatch(_, _)
GlobMatch(p, s) ==
    IF p = <<>> THEN s = <<>>
    ELSE IF Head(p) = "*"
        THEN GlobMatch(Tail(p), s) \/ (s # <<>> /\ GlobMatch(p, Tail(s)))
    ELSE IF s = <<>> THEN FALSE
    ELSE IF Head(p) = "?" THEN GlobMatch(Tail(p), Tail(s))
    ELSE IF Head(p) = "[" /\ ClassClose(p) # 0
        THEN LET e == ClassClose(p)
                 neg == p[2] = "!"
                 members == {p[i] : i \in (IF neg THEN 3 ELSE 2)..(e - 1)}
             IN  /\ (Head(s) \in members) # neg
                 /\ GlobMatch(SubSeq(p, e + 1, Len(p)), Tail(s))
    ELSE Head(s) = Head(p) /\ GlobMatch(Tail(p), Tail(s))

-----------------------------------------------------------------------------
(* Rasters *)

Pix(w, h) == (0..(w - 1)) \X (0..(h - 1))

\* Image.new("RGBA", size, (0, 0, 0, 0))
Blank(w, h) == [w |-> w, h |-> h, px |-> [p \in Pix(w, h) |-> TRANSPARENT]]

Abs(n) == IF n < 0 THEN -n ELSE n
Min(a, b) == IF a < b THEN a ELSE b
Max(a, b) == IF a > b THEN a ELSE b

\* Image.resize(size): nearest source pixel (the resampling filter's blending is not modelled)
Resize(img, w, h) ==
    [w |-> w, h |-> h,
     px |-> [p \in Pix(w, h) |->
                img.px[<<(p[1] * img.w) \div w, (p[2] * img.h) \div h>>]]]

\* The pixels ImageDraw.line paints for the segment a-b with the given width:
\* the single point a when a = b, else the pixels of the rectangle of that
\* width around the segment (perpendicular distance at most (width-1)/2,
\* projection on the segment within it), clipped to the raster.
LinePixels(a, b, width, w, h) ==
    LET dx == b[1] - a[1]
        dy == b[2] - a[2]
        len2 == dx * dx + dy * dy
    IN  IF len2 = 0 THEN {a} \cap Pix(w, h)
        ELSE {p \in Pix(w, h) :
                LET ex == p[1] - a[1]
                    ey == p[2] - a[2]
                    dot == ex * dx + ey * dy
                    cross == ex * dy - ey * dx
                IN  /\ 0 <= dot /\ dot <= len2
                    /\ 4 * cross * cross <= (width - 1) * (width - 1) * len2}

\* self.drawer.line([a, b], fill=color, width=width)
DrawLine(img, a, b, color, width) ==
    LET hit == LinePixels(a, b, width, img.w, img.h)
    IN  [img EXCEPT !.px = [p \in Pix(img.w, img.h) |->
                               IF p \in hit THEN color ELSE img.px[p]]]

\* PixelAccess indexing: a negative index counts from the far edge
WrapIndex(p, w, h) ==
    <<IF p[1] < 0 THEN p[1] + w ELSE p[1], IF p[2] < 0 THEN p[2] + h ELSE p[2]>>

\* the adjacent pixels with the diagonal ones added
Neighbours8(p) ==
    {<<p[1] + dx, p[2] + dy>> : dx \in {-1, 0, 1}, dy \in {-1, 0, 1}} \ {p}

\* the four pixels floodfill visits around p
Neighbours(p) ==
    {<<p[1] + 1, p[2]>>, <<p[1] - 1, p[2]>>, <<p[1], p[2] + 1>>, <<p[1], p[2] - 1>>}

\* the frontier loop of PIL.ImageDraw.floodfill: the pixels 4-connected to
\* `region` through pixels of colour `background`
RECURSIVE Grow(_, _, _)
Grow(img, region, background) ==
    LET more == {q \in Pix(img.w, img.h) \ region :
                    /\ img.px[q] = background
                    /\ \E p \in region : q \in Neighbours(p)}
    IN  IF more = {} THEN region ELSE Grow(img, region \cup more, background)

\* a fill that has no test of the seed's colour and spreads through every
\* pixel that does not have the fill colour yet
floodfillBorder(img, xy, value) ==
    LET s == WrapIndex(xy, img.w, img.h)
        RECURSIVE Spread(_)
        Spread(region) ==
            LET more == {q \in Pix(img.w, img.h) \ region :
                            /\ img.px[q] # value
                            /\ \E p \in region : q \in Neighbours(p)}
            IN  IF more = {} THEN region ELSE Spread(region \cup more)
    IN  IF s \notin Pix(img.w, img.h) THEN img
        ELSE [img EXCEPT !.px = [p \in Pix(img.w, img.h) |->
                                    IF p \in Spread({s}) THEN value ELSE img.px[p]]]

\* floodfill(self.layer, (ix, iy), self.pen_color)
floodfill(img, xy, value) ==
    LET s == WrapIndex(xy, img.w, img.h)
    IN  IF s \notin Pix(img.w, img.h) THEN img      \* seed outside the image
        ELSE IF img.px[s] = value THEN img           \* seed already has the fill colour
        ELSE LET region == Grow(img, {s}, img.px[s])
             IN  [img EXCEPT !.px = [p \in Pix(img.w, img.h) |->
                                        IF p \in region THEN value ELSE img.px[p]]]

-----------------------------------------------------------------------------
(* Files and metadata *)

\* os.path.basename(self.input_dir)
InputFolder == <<"t", "_", "1">>

\* folder.split("_")[0]
RECURSIVE UpTo(_, _)
UpTo(s, c) == IF s = <<>> \/ Head(s) = c THEN <<>> ELSE <<Head(s)>> \o UpTo(Tail(s), c)

Digits == <<"0", "1", "2", "3", "4", "5", "6", "7", "8", "9">>

\* now.strftime(TS_FILENAME_FMT) and now.strftime(TS_DISPLAY_FMT): the clock
\* reading in the formats' resolution
FileTs(t) == <<Digits[(t % 10) + 1]>>
DispTs(t) == <<"@", Digits[(t % 10) + 1]>>

\* os.path.basename(path): the metadata key
MetaKey(im) == im.base \o im.ext

\* f"{input_folder}-COMBINED-{name}.png"
ContinuityName(base_name) == InputFolder \o <<"-">> \o COMBINED \o <<"-">> \o base_name \o PNG

\* the names glob.glob(pattern) returns among `files`
Glob(files, pattern) == {f \in files : GlobMatch(pattern, f.name)}

\* a directory after open(name, "w"): the file is replaced in place or created, newest last
WriteFile(dir, name, img) ==
    LET kept == SelectSeq(dir, LAMBDA f : f.name # name)
    IN  Append(kept, [name |-> name, img |-> img])

\* the mapping of _update_pen_labels
PenOf(d) ==
    CASE d = chip -> "pen1"
      [] d = scratch -> "pen2"
      [] d = gouge -> "pen3"
      [] d = inclusion -> "pen4"
      [] d = void -> "pen5"
      [] d = other -> "pen6"
      [] OTHER -> "none"

\* _update_pen_labels: clear every pen, then give each selected defect its pen
UpdatePenLabels(dv) ==
    [k \in Pens |->
        IF \E d \in DOMAIN dv : dv[d] /\ PenOf(d) = k
        THEN CHOOSE d \in DOMAIN dv : dv[d] /\ PenOf(d) = k
        ELSE <<>>]

\* the selected defects in vocabulary order
Selected(vocab, dv) == SelectSeq(vocab, LAMBDA d : dv[d])

\* meta.get(key, {}) with the defaults _load_image reads each field with
MetaGet(meta, key) ==
    IF key \in DOMAIN meta THEN meta[key]
    ELSE [note |-> <<>>, inspector |-> <<>>, tray |-> <<>>, defects |-> <<>>,
          pen_labels |-> [k \in {} |-> <<>>], last_saved |-> never]

\* the Overlay of _load_image with a persisted artifact taken at its own size
LoadLayerNoResize(masks, im) ==
    LET pattern == <<"*", "-">> \o COMBINED \o <<"-">> \o im.base \o PNG
        hits == {i \in 1..Len(masks) : GlobMatch(pattern, masks[i].name)}
    IN  IF hits = {} THEN Blank(im.w, im.h)
        ELSE masks[CHOOSE i \in hits : \A j \in hits : j <= i].img

\* the Overlay _load_image builds: the newest "*-COMBINED-{base_name}.png",
\* resized to the image if its size differs, else a blank layer
LoadLayer(masks, im) ==
    LET pattern == <<"*", "-">> \o COMBINED \o <<"-">> \o im.base \o PNG
        hits == {i \in 1..Len(masks) : GlobMatch(pattern, masks[i].name)}
    IN  IF hits = {} THEN Blank(im.w, im.h)
        ELSE LET lm == masks[CHOOSE i \in hits : \A j \in hits : j <= i].img
             IN  IF lm.w # im.w \/ lm.h # im.h THEN Resize(lm, im.w, im.h) ELSE lm

LoadDefectVars(vocab, m) == [d \in SeqToSet(vocab) |-> d \in SeqToSet(m.defects)]

LoadPenVars(vocab, m) ==
    LET derived == UpdatePenLabels(LoadDefectVars(vocab, m))
    IN  [k \in Pens |-> IF k \in DOMAIN m.pen_labels THEN m.pen_labels[k] ELSE derived[k]]

LoadTray(m) == IF m.tray # <<>> THEN m.tray ELSE UpTo(InputFolder, "_")

\* _fit_image_to_canvas
FitZoom(z, cw, ch, bw, bh) ==
    IF cw > 1 /\ ch > 1
    THEN Min(Min((cw * ZoomUnit) \div bw, (ch * ZoomUnit) \div bh), ZoomUnit)
    ELSE z

\* no stored entry is the live layer object: every assignment of self.layer
\* is a fresh Image (Image.new, Image.open(...).convert, resize or .copy())
NoAliases == [h |-> {}, r |-> {}]

\* drawing into self.layer in place (drawer.line, ImageDraw.floodfill) shows in
\* every entry of the list `entries` that is the same object: the indices idxs
WriteThrough(entries, idxs, img) ==
    [i \in 1..Len(entries) |-> IF i \in idxs THEN img ELSE entries[i]]

\* the indices al.h after a pop(0) of the oldest entry
Evicted(idxs) == {i - 1 : i \in idxs \ {1}}

\* _record_history appending self.layer itself instead of a copy
RecordAliasesNoCopy(al, h) ==
    [h |-> IF Len(h) + 1 > HISTORY_MAX THEN Evicted(al.h \cup {Len(h) + 1})
           ELSE al.h \cup {Len(h) + 1},
     r |-> {}]

\* _record_history: the appended entry is self.layer.copy(), a new object;
\* the eviction shifts the indices; redo_stack.clear() drops its entries
RecordAliases(al, h) ==
    [h |-> IF Len(h) + 1 > HISTORY_MAX THEN Evicted(al.h) ELSE al.h,
     r |-> {}]

\* _record_history without the eviction of the oldest entry
RecordHistoryNoEvict(h, lay) == Append(h, lay)

\* _record_history on history h with the Overlay lay
RecordHistory(h, lay) ==
    LET a == Append(h, lay)
    IN  IF Len(a) > HISTORY_MAX THEN Tail(a) ELSE a

\* int(v / self.zoom): Python's int() truncates toward zero
TruncDiv(a, b) == IF a >= 0 THEN a \div b ELSE -((-a) \div b)

\* canvas.canvasx / canvasy: the canvas is never scrolled, its origin stays at 0
canvasx(x) == x

\* the image coordinate of a pointer coordinate s under pan p and zoom z
ToImage(s, p, z) == TruncDiv((canvasx(s) - p) * ZoomUnit, z)

-----------------------------------------------------------------------------
(* The state after construction: __init__ loads image 0 and fits it *)

InitWith(paths, vocab, masks0, cats0, meta0, cw, ch, t0) ==
    LET im == paths[1]
        m == MetaGet(meta0, MetaKey(im))
    IN  /\ image_paths = paths
        /\ defects = vocab
        /\ idx = 0
        /\ mode = "draw"
        /\ layer = LoadLayer(masks0, im)
        /\ history = <<LoadLayer(masks0, im)>>
        /\ redo_stack = <<>>
        /\ aliases = NoAliases
        /\ pan_x = 0
        /\ pan_y = 0
        /\ zoom = FitZoom(ZoomUnit, cw, ch, im.w, im.h)
        /\ drawing = FALSE
        /\ current_pen = "pen1"
        /\ pen_color = PenColor("pen1")
        /\ base = [w |-> im.w, h |-> im.h]
        /\ stroke_start = <<>>
        /\ last_pt = <<>>
        /\ pr = <<>>
        /\ fill_var = FALSE
        /\ defect_vars = LoadDefectVars(vocab, m)
        /\ pen_vars = LoadPenVars(vocab, m)
        /\ inspector_var = <<>>
        /\ note_text = m.note
        /\ tray_var = LoadTray(m)
        /\ save_ts_var = m.last_saved
        /\ unsaved_clear = FALSE
        /\ canvas_w = cw
        /\ canvas_h = ch
        /\ masks_dir = masks0
        /\ cat_dirs = cats0
        /\ metadata = meta0
        /\ now = t0
        /\ closed = FALSE
        /\ lastOp = "init"
        /\ preLayer = LoadLayer(masks0, im)
        /\ ev = <<>>

-----------------------------------------------------------------------------
(* Handlers.  Every button command runs through _wrap_cmd, which clears    *)
(* fill_var first; the canvas pointer bindings and the check boxes do not. *)

envVars == <<image_paths, defects>>
canvasVars == <<canvas_w, canvas_h>>
diskVars == <<masks_dir, cat_dirs, metadata>>
uiVars == <<defect_vars, pen_vars, inspector_var, note_text, tray_var, save_ts_var>>
penVars == <<current_pen, pen_color>>
viewVars == <<pan_x, pan_y, zoom>>
strokeVars == <<drawing, stroke_start, last_pt>>
histVars == <<history, redo_stack, aliases>>

\* the history variables: no handler reads them
GhostAt(label, at) ==
    /\ lastOp' = label
    /\ preLayer' = IF label \in {"undo", "undo_noop", "next", "prev", "close"}
                   THEN layer ELSE preLayer
    /\ ev' = at

Ghost(label) == GhostAt(label, ev)

\* _on_left_press without the return that ends the fill branch
OnLeftPressFallThrough(sx, sy) ==
    LET ix == ToImage(sx, pan_x, zoom)
        iy == ToImage(sy, pan_y, zoom)
        filled == floodfill(layer, <<ix, iy>>, pen_color)
    IN  /\ ~closed
        /\ layer' = IF fill_var THEN filled ELSE layer
        /\ history' = IF fill_var
                      THEN RecordHistory(WriteThrough(history, aliases.h, filled), filled)
                      ELSE history
        /\ redo_stack' = IF fill_var THEN <<>> ELSE redo_stack
        /\ aliases' = IF fill_var THEN RecordAliases(aliases, history) ELSE aliases
        /\ IF ~drawing
           THEN /\ drawing' = TRUE
                /\ stroke_start' = <<ix, iy>>
                /\ last_pt' = <<ix, iy>>
           ELSE UNCHANGED strokeVars
        /\ GhostAt(IF fill_var THEN "fill" ELSE IF ~drawing THEN "press" ELSE "press_noop",
                   <<sx, sy>>)
        /\ UNCHANGED <<envVars, canvasVars, diskVars, uiVars, penVars, viewVars, pr,
                       idx, mode, base, fill_var, unsaved_clear, now, closed>>

\* _on_left_press
OnLeftPress(sx, sy) ==
    LET ix == ToImage(sx, pan_x, zoom)
        iy == ToImage(sy, pan_y, zoom)
        filled == floodfill(layer, <<ix, iy>>, pen_color)
    IN  /\ ~closed
        /\ IF fill_var
           THEN /\ layer' = filled
                /\ history' = RecordHistory(WriteThrough(history, aliases.h, filled), filled)
                /\ redo_stack' = <<>>
                /\ aliases' = RecordAliases(aliases, history)
                /\ UNCHANGED strokeVars
                /\ GhostAt("fill", <<sx, sy>>)
           ELSE IF ~drawing
           THEN /\ drawing' = TRUE
                /\ stroke_start' = <<ix, iy>>
                /\ last_pt' = <<ix, iy>>
                /\ UNCHANGED <<layer, histVars>>
                /\ GhostAt("press", <<sx, sy>>)
           ELSE /\ UNCHANGED <<layer, histVars, strokeVars>>
                /\ GhostAt("press_noop", <<sx, sy>>)
        /\ UNCHANGED <<envVars, canvasVars, diskVars, uiVars, penVars, viewVars, pr,
                       idx, mode, base, fill_var, unsaved_clear, now, closed>>

\* _on_left_move
OnLeftMove(sx, sy) ==
    LET ix == ToImage(sx, pan_x, zoom)
        iy == ToImage(sy, pan_y, zoom)
        color == IF mode = "draw" THEN pen_color ELSE TRANSPARENT
        width == IF mode = "draw" THEN PEN_WIDTH ELSE ERASE_WIDTH
        drawn == DrawLine(layer, last_pt, <<ix, iy>>, color, width)
    IN  /\ ~closed
        /\ IF fill_var \/ ~drawing
           THEN /\ UNCHANGED <<layer, last_pt, histVars>>
                /\ GhostAt("move_noop", <<sx, sy>>)
           ELSE /\ layer' = drawn
                /\ history' = WriteThrough(history, aliases.h, drawn)
                /\ redo_stack' = WriteThrough(redo_stack, aliases.r, drawn)
                /\ UNCHANGED aliases
                /\ last_pt' = <<ix, iy>>
                /\ GhostAt("move", <<sx, sy>>)
        /\ UNCHANGED <<envVars, canvasVars, diskVars, uiVars, penVars, viewVars, pr,
                       drawing, stroke_start,
                       idx, mode, base, fill_var, unsaved_clear, now, closed>>

\* _on_left_release
OnLeftRelease ==
    LET closedShape == DrawLine(layer, last_pt, stroke_start, pen_color, PEN_WIDTH)
    IN  /\ ~closed
        /\ IF drawing /\ mode = "draw" /\ ~fill_var
           THEN /\ layer' = closedShape
                /\ history' = RecordHistory(WriteThrough(history, aliases.h, closedShape),
                                            closedShape)
                /\ redo_stack' = <<>>
                /\ aliases' = RecordAliases(aliases, history)
                /\ Ghost("release_draw")
           ELSE /\ UNCHANGED <<layer, histVars>>
                /\ Ghost(IF ~drawing THEN "release_idle"
                         ELSE IF mode = "erase" THEN "release_erase"
                         ELSE "release_fill")
        /\ drawing' = FALSE
        /\ UNCHANGED <<envVars, canvasVars, diskVars, uiVars, penVars, viewVars, pr,
                       stroke_start, last_pt,
                       idx, mode, base, fill_var, unsaved_clear, now, closed>>

\* _on_right_press
OnRightPress(sx, sy) ==
    /\ ~closed
    /\ pr' = <<sx, sy>>
    /\ Ghost("right_press")
    /\ UNCHANGED <<envVars, canvasVars, diskVars, uiVars, penVars, viewVars,
                   histVars, strokeVars, layer,
                   idx, mode, base, fill_var, unsaved_clear, now, closed>>

\* _on_right_move setting the pan offset to the last pointer delta
OnRightMoveAbsolute(sx, sy) ==
    /\ ~closed
    /\ pr # <<>>
    /\ pan_x' = sx - pr[1]
    /\ pan_y' = sy - pr[2]
    /\ pr' = <<sx, sy>>
    /\ Ghost("right_move")
    /\ UNCHANGED <<envVars, canvasVars, diskVars, uiVars, penVars, zoom,
                   histVars, strokeVars, layer,
                   idx, mode, base, fill_var, unsaved_clear, now, closed>>

\* _on_right_move (B3-Motion: the secondary button is held, so a press came first)
OnRightMove(sx, sy) ==
    /\ ~closed
    /\ pr # <<>>
    /\ pan_x' = pan_x + (sx - pr[1])
    /\ pan_y' = pan_y + (sy - pr[2])
    /\ pr' = <<sx, sy>>
    /\ Ghost("right_move")
    /\ UNCHANGED <<envVars, canvasVars, diskVars, uiVars, penVars, zoom,
                   histVars, strokeVars, layer,
                   idx, mode, base, fill_var, unsaved_clear, now, closed>>

\* _on_right_release
OnRightRelease ==
    /\ ~closed
    /\ pr # <<>>
    /\ pr' = <<>>
    /\ Ghost("right_release")
    /\ UNCHANGED <<envVars, canvasVars, diskVars, uiVars, penVars, viewVars,
                   histVars, strokeVars, layer,
                   idx, mode, base, fill_var, unsaved_clear, now, closed>>

\* the "PEN FILL MODE" check box
ToggleFill ==
    /\ ~closed
    /\ fill_var' = ~fill_var
    /\ Ghost("toggle_fill")
    /\ UNCHANGED <<envVars, canvasVars, diskVars, uiVars, penVars, viewVars, pr,
                   histVars, strokeVars, layer,
                   idx, mode, base, unsaved_clear, now, closed>>

\* the Draw and Erase buttons: _wrap_cmd(lambda: self.set_mode(m))
SetMode(m) ==
    /\ ~closed
    /\ fill_var' = FALSE
    /\ mode' = m
    /\ Ghost("set_mode")
    /\ UNCHANGED <<envVars, canvasVars, diskVars, uiVars, penVars, viewVars, pr,
                   histVars, strokeVars, layer,
                   idx, base, unsaved_clear, now, closed>>

\* the "Use PENn" buttons: _wrap_cmd(lambda: self.select_pen(k))
SelectPen(k) ==
    /\ ~closed
    /\ fill_var' = FALSE
    /\ current_pen' = k
    /\ pen_color' = PenColor(k)
    /\ mode' = "draw"
    /\ Ghost("select_pen")
    /\ UNCHANGED <<envVars, canvasVars, diskVars, uiVars, viewVars, pr,
                   histVars, strokeVars, layer,
                   idx, base, unsaved_clear, now, closed>>

\* max(0.1, min(self.zoom * factor, 10.0))
ClampZoom(z, factor) == Max(ZOOM_MIN, Min((z * factor) \div ZoomUnit, ZOOM_MAX))

\* the zoom buttons: _wrap_cmd(lambda f=factor: self._set_zoom(f))
SetZoom(factor) ==
    /\ ~closed
    /\ fill_var' = FALSE
    /\ zoom' = ClampZoom(zoom, factor)
    /\ Ghost("set_zoom")
    /\ UNCHANGED <<envVars, canvasVars, diskVars, uiVars, penVars, pan_x, pan_y, pr,
                   histVars, strokeVars, layer,
                   idx, mode, base, unsaved_clear, now, closed>>

\* a wheel notch over the canvas: the canvas binding _wrap_cmd(_on_mousewheel)
\* or _wrap_cmd(lambda e: self._set_zoom(f)), then, where the window-wide
\* binding is in place (always for <MouseWheel>; for <Button-4>/<Button-5>
\* until the pointer first leaves the control panel), _on_global_wheel with
\* the pointer inside the canvas
OnCanvasWheel(factor, global) ==
    /\ ~closed
    /\ fill_var' = FALSE
    /\ zoom' = IF global THEN ClampZoom(ClampZoom(zoom, factor), factor)
               ELSE ClampZoom(zoom, factor)
    /\ Ghost("wheel")
    /\ UNCHANGED <<envVars, canvasVars, diskVars, uiVars, penVars, pan_x, pan_y, pr,
                   histVars, strokeVars, layer,
                   idx, mode, base, unsaved_clear, now, closed>>

\* the "Export Excel" button: _wrap_cmd(self.export_excel); the workbook is
\* written beside the masks and read by nothing
ExportExcel ==
    /\ ~closed
    /\ fill_var' = FALSE
    /\ Ghost("export_excel")
    /\ UNCHANGED <<envVars, canvasVars, diskVars, uiVars, penVars, viewVars, pr,
                   histVars, strokeVars, layer,
                   idx, mode, base, unsaved_clear, now, closed>>

\* the "Export CSV" button: _wrap_cmd(self.export_csv)
ExportCsv ==
    /\ ~closed
    /\ fill_var' = FALSE
    /\ Ghost("export_csv")
    /\ UNCHANGED <<envVars, canvasVars, diskVars, uiVars, penVars, viewVars, pr,
                   histVars, strokeVars, layer,
                   idx, mode, base, unsaved_clear, now, closed>>

\* Settings > "Input Folder...": command=self.choose_input_folder; the path
\* goes to the configuration file, which the running session does not reread
ChooseInputFolder ==
    /\ ~closed
    /\ Ghost("choose_input_folder")
    /\ UNCHANGED <<envVars, canvasVars, diskVars, uiVars, penVars, viewVars, pr,
                   histVars, strokeVars, layer,
                   idx, mode, base, fill_var, unsaved_clear, now, closed>>

\* Settings > "Defects JSON...": command=self.choose_defects_config
ChooseDefectsConfig ==
    /\ ~closed
    /\ Ghost("choose_defects_config")
    /\ UNCHANGED <<envVars, canvasVars, diskVars, uiVars, penVars, viewVars, pr,
                   histVars, strokeVars, layer,
                   idx, mode, base, fill_var, unsaved_clear, now, closed>>

\* clear_all without redo_stack.clear()
ClearAllKeepRedo ==
    /\ ~closed
    /\ fill_var' = FALSE
    /\ layer' = Blank(base.w, base.h)
    /\ history' = <<Blank(base.w, base.h)>>
    /\ aliases' = NoAliases
    /\ note_text' = <<>>
    /\ inspector_var' = <<>>
    /\ defect_vars' = [d \in DOMAIN defect_vars |-> FALSE]
    /\ pen_vars' = [k \in Pens |-> <<>>]
    /\ unsaved_clear' = TRUE
    /\ Ghost("clear")
    /\ UNCHANGED <<envVars, canvasVars, diskVars, tray_var, save_ts_var, penVars,
                   viewVars, pr, strokeVars, redo_stack, idx, mode, base, now, closed>>

\* the Clear button: clear_all
ClearAll ==
    /\ ~closed
    /\ fill_var' = FALSE
    /\ layer' = Blank(base.w, base.h)
    /\ history' = <<Blank(base.w, base.h)>>
    /\ redo_stack' = <<>>
    /\ aliases' = NoAliases
    /\ note_text' = <<>>
    /\ inspector_var' = <<>>
    /\ defect_vars' = [d \in DOMAIN defect_vars |-> FALSE]
    /\ pen_vars' = [k \in Pens |-> <<>>]
    /\ unsaved_clear' = TRUE
    /\ Ghost("clear")
    /\ UNCHANGED <<envVars, canvasVars, diskVars, tray_var, save_ts_var, penVars,
                   viewVars, pr, strokeVars, idx, mode, base, now, closed>>

\* undo pushing the last entry onto the Redo stack without popping it
UndoNoPop ==
    /\ ~closed
    /\ fill_var' = FALSE
    /\ IF Len(history) > 1
       THEN /\ redo_stack' = Append(redo_stack, history[Len(history)])
            /\ UNCHANGED history
            /\ aliases' = NoAliases
            /\ layer' = history[Len(history) - 1]
            /\ Ghost("undo")
       ELSE /\ UNCHANGED <<histVars, layer>>
            /\ Ghost("undo_noop")
    /\ UNCHANGED <<envVars, canvasVars, diskVars, uiVars, penVars, viewVars, pr,
                   strokeVars, idx, mode, base, unsaved_clear, now, closed>>

\* undo popping the last remaining entry as well
UndoToEmpty ==
    /\ ~closed
    /\ fill_var' = FALSE
    /\ IF Len(history) > 0
       THEN /\ redo_stack' = Append(redo_stack, history[Len(history)])
            /\ history' = SubSeq(history, 1, Len(history) - 1)
            /\ aliases' = NoAliases
            /\ layer' = IF Len(history) > 1 THEN history[Len(history) - 1] ELSE layer
            /\ Ghost("undo")
       ELSE /\ UNCHANGED <<histVars, layer>>
            /\ Ghost("undo_noop")
    /\ UNCHANGED <<envVars, canvasVars, diskVars, uiVars, penVars, viewVars, pr,
                   strokeVars, idx, mode, base, unsaved_clear, now, closed>>

\* the Undo button: undo
Undo ==
    /\ ~closed
    /\ fill_var' = FALSE
    /\ IF Len(history) > 1
       THEN /\ redo_stack' = Append(redo_stack, history[Len(history)])
            /\ history' = SubSeq(history, 1, Len(history) - 1)
            /\ aliases' = NoAliases
            /\ layer' = history[Len(history) - 1]
            /\ Ghost("undo")
       ELSE /\ UNCHANGED <<histVars, layer>>
            /\ Ghost("undo_noop")
    /\ UNCHANGED <<envVars, canvasVars, diskVars, uiVars, penVars, viewVars, pr,
                   strokeVars, idx, mode, base, unsaved_clear, now, closed>>

\* redo restoring the Overlay from the entry below the re-appended one
RedoStale ==
    /\ ~closed
    /\ fill_var' = FALSE
    /\ IF redo_stack # <<>>
       THEN /\ history' = Append(history, redo_stack[Len(redo_stack)])
            /\ redo_stack' = SubSeq(redo_stack, 1, Len(redo_stack) - 1)
            /\ aliases' = NoAliases
            /\ layer' = history[Len(history)]
            /\ Ghost(IF lastOp = "undo" THEN "undo_redo" ELSE "redo")
       ELSE /\ UNCHANGED <<histVars, layer>>
            /\ Ghost("redo_noop")
    /\ UNCHANGED <<envVars, canvasVars, diskVars, uiVars, penVars, viewVars, pr,
                   strokeVars, idx, mode, base, unsaved_clear, now, closed>>

\* the Redo button: redo
Redo ==
    /\ ~closed
    /\ fill_var' = FALSE
    /\ IF redo_stack # <<>>
       THEN /\ history' = Append(history, redo_stack[Len(redo_stack)])
            /\ redo_stack' = SubSeq(redo_stack, 1, Len(redo_stack) - 1)
            /\ aliases' = NoAliases
            /\ layer' = redo_stack[Len(redo_stack)]
            /\ Ghost(IF lastOp = "undo" THEN "undo_redo" ELSE "redo")
       ELSE /\ UNCHANGED <<histVars, layer>>
            /\ Ghost("redo_noop")
    /\ UNCHANGED <<envVars, canvasVars, diskVars, uiVars, penVars, viewVars, pr,
                   strokeVars, idx, mode, base, unsaved_clear, now, closed>>

\* a defect check box: the variable's write trace runs _update_pen_labels
ToggleDefect(d) ==
    LET dv == [defect_vars EXCEPT ![d] = ~defect_vars[d]]
    IN  /\ ~closed
        /\ d \in DOMAIN defect_vars
        /\ defect_vars' = dv
        /\ pen_vars' = UpdatePenLabels(dv)
        /\ Ghost("toggle_defect")
        /\ UNCHANGED <<envVars, canvasVars, diskVars, inspector_var, note_text,
                       tray_var, save_ts_var, penVars, viewVars, pr,
                       histVars, strokeVars, layer,
                       idx, mode, base, fill_var, unsaved_clear, now, closed>>

\* typing in the Inspector entry
SetInspector(name) ==
    /\ ~closed
    /\ inspector_var' = name
    /\ Ghost("set_inspector")
    /\ UNCHANGED <<envVars, canvasVars, diskVars, defect_vars, pen_vars, note_text,
                   tray_var, save_ts_var, penVars, viewVars, pr,
                   histVars, strokeVars, layer,
                   idx, mode, base, fill_var, unsaved_clear, now, closed>>

\* typing in the Note text box
SetNote(text) ==
    /\ ~closed
    /\ note_text' = text
    /\ Ghost("set_note")
    /\ UNCHANGED <<envVars, canvasVars, diskVars, defect_vars, pen_vars, inspector_var,
                   tray_var, save_ts_var, penVars, viewVars, pr,
                   histVars, strokeVars, layer,
                   idx, mode, base, fill_var, unsaved_clear, now, closed>>

-----------------------------------------------------------------------------
(* Persistence *)

\* the record both save paths store under the image's key
MetaEntry(last_saved) ==
    [note |-> note_text, inspector |-> inspector_var, tray |-> tray_var,
     defects |-> Selected(defects, defect_vars), pen_labels |-> pen_vars,
     last_saved |-> last_saved]

\* json.dump of a store that holds the written entry alone
MetaPutOnly(meta, key, entry) == [k \in {key} |-> entry]

\* meta[key] = entry; json.dump(meta, ...)
MetaPut(meta, key, entry) ==
    [k \in DOMAIN meta \cup {key} |-> IF k = key THEN entry ELSE meta[k]]

\* _save_current: the masks directory after the continuity save of the Overlay
SaveCurrentMasks(masks, im, lay) == WriteFile(masks, ContinuityName(im.base), lay)

\* _save_current stamping the record with the current display timestamp
SaveCurrentMetaStamped(meta, im) == MetaPut(meta, MetaKey(im), MetaEntry(DispTs(now)))

\* _save_current: the metadata after it, last_saved kept as stored
SaveCurrentMeta(meta, im) ==
    MetaPut(meta, MetaKey(im), MetaEntry(MetaGet(meta, MetaKey(im)).last_saved))

\* prev_image / next_image leaving the clear-suppression flag as it is
NavigateSticky(delta, label) ==
    LET cur == image_paths[idx + 1]
        masks1 == IF unsaved_clear THEN masks_dir ELSE SaveCurrentMasks(masks_dir, cur, layer)
        meta1 == IF unsaved_clear THEN metadata ELSE SaveCurrentMeta(metadata, cur)
        j == (idx + delta) % Len(image_paths)
        im == image_paths[j + 1]
        m == MetaGet(meta1, MetaKey(im))
        lay == LoadLayer(masks1, im)
    IN  /\ ~closed
        /\ fill_var' = FALSE
        /\ masks_dir' = masks1
        /\ metadata' = meta1
        /\ idx' = j
        /\ base' = [w |-> im.w, h |-> im.h]
        /\ layer' = lay
        /\ history' = <<lay>>
        /\ redo_stack' = <<>>
        /\ aliases' = NoAliases
        /\ pan_x' = 0
        /\ pan_y' = 0
        /\ zoom' = FitZoom(ZoomUnit, canvas_w, canvas_h, im.w, im.h)
        /\ drawing' = FALSE
        /\ note_text' = m.note
        /\ tray_var' = LoadTray(m)
        /\ defect_vars' = LoadDefectVars(defects, m)
        /\ pen_vars' = LoadPenVars(defects, m)
        /\ save_ts_var' = m.last_saved
        /\ unsaved_clear' = unsaved_clear
        /\ Ghost(label)
        /\ UNCHANGED <<envVars, canvasVars, cat_dirs, inspector_var, penVars, pr,
                       stroke_start, last_pt, mode, now, closed>>

\* prev_image / next_image stopping at the ends of the list
NavigateClamped(delta, label) ==
    LET cur == image_paths[idx + 1]
        masks1 == IF unsaved_clear THEN masks_dir ELSE SaveCurrentMasks(masks_dir, cur, layer)
        meta1 == IF unsaved_clear THEN metadata ELSE SaveCurrentMeta(metadata, cur)
        j == Max(0, Min(idx + delta, Len(image_paths) - 1))
        im == image_paths[j + 1]
        m == MetaGet(meta1, MetaKey(im))
        lay == LoadLayer(masks1, im)
    IN  /\ ~closed
        /\ fill_var' = FALSE
        /\ masks_dir' = masks1
        /\ metadata' = meta1
        /\ idx' = j
        /\ base' = [w |-> im.w, h |-> im.h]
        /\ layer' = lay
        /\ history' = <<lay>>
        /\ redo_stack' = <<>>
        /\ aliases' = NoAliases
        /\ pan_x' = 0
        /\ pan_y' = 0
        /\ zoom' = FitZoom(ZoomUnit, canvas_w, canvas_h, im.w, im.h)
        /\ drawing' = FALSE
        /\ note_text' = m.note
        /\ tray_var' = LoadTray(m)
        /\ defect_vars' = LoadDefectVars(defects, m)
        /\ pen_vars' = LoadPenVars(defects, m)
        /\ save_ts_var' = m.last_saved
        /\ unsaved_clear' = FALSE
        /\ Ghost(label)
        /\ UNCHANGED <<envVars, canvasVars, cat_dirs, inspector_var, penVars, pr,
                       stroke_start, last_pt, mode, now, closed>>

\* prev_image / next_image: flush unless a clear is pending, move, load, fit
Navigate(delta, label) ==
    LET cur == image_paths[idx + 1]
        masks1 == IF unsaved_clear THEN masks_dir ELSE SaveCurrentMasks(masks_dir, cur, layer)
        meta1 == IF unsaved_clear THEN metadata ELSE SaveCurrentMeta(metadata, cur)
        j == (idx + delta) % Len(image_paths)
        im == image_paths[j + 1]
        m == MetaGet(meta1, MetaKey(im))
        lay == LoadLayer(masks1, im)
    IN  /\ ~closed
        /\ fill_var' = FALSE
        /\ masks_dir' = masks1
        /\ metadata' = meta1
        /\ idx' = j
        /\ base' = [w |-> im.w, h |-> im.h]
        /\ layer' = lay
        /\ history' = <<lay>>
        /\ redo_stack' = <<>>
        /\ aliases' = NoAliases
        /\ pan_x' = 0
        /\ pan_y' = 0
        /\ zoom' = FitZoom(ZoomUnit, canvas_w, canvas_h, im.w, im.h)
        /\ drawing' = FALSE
        /\ note_text' = m.note
        /\ tray_var' = LoadTray(m)
        /\ defect_vars' = LoadDefectVars(defects, m)
        /\ pen_vars' = LoadPenVars(defects, m)
        /\ save_ts_var' = m.last_saved
        /\ unsaved_clear' = FALSE
        /\ Ghost(label)
        /\ UNCHANGED <<envVars, canvasVars, cat_dirs, inspector_var, penVars, pr,
                       stroke_start, last_pt, mode, now, closed>>

\* the Next button
NextImage == Navigate(1, "next")

\* the Prev button
PrevImage == Navigate(-1, "prev")

\* WM_DELETE_WINDOW: _on_close
OnClose ==
    LET cur == image_paths[idx + 1]
    IN  /\ ~closed
        /\ masks_dir' = IF unsaved_clear THEN masks_dir
                        ELSE SaveCurrentMasks(masks_dir, cur, layer)
        /\ metadata' = IF unsaved_clear THEN metadata ELSE SaveCurrentMeta(metadata, cur)
        /\ closed' = TRUE
        /\ Ghost("close")
        /\ UNCHANGED <<envVars, canvasVars, cat_dirs, uiVars, penVars, viewVars, pr,
                       histVars, strokeVars, layer,
                       idx, mode, base, fill_var, unsaved_clear, now>>

\* datetime.datetime.now() advances
Tick(limit) ==
    /\ ~closed
    /\ now < limit
    /\ now' = now + 1
    /\ Ghost("tick")
    /\ UNCHANGED <<envVars, canvasVars, diskVars, uiVars, penVars, viewVars, pr,
                   histVars, strokeVars, layer,
                   idx, mode, base, fill_var, unsaved_clear, closed>>

\* the window is resized: winfo_width / winfo_height change
ResizeCanvas(cw, ch) ==
    /\ ~closed
    /\ <<cw, ch>> # <<canvas_w, canvas_h>>
    /\ canvas_w' = cw
    /\ canvas_h' = ch
    /\ Ghost("resize")
    /\ UNCHANGED <<envVars, diskVars, uiVars, penVars, viewVars, pr,
                   histVars, strokeVars, layer,
                   idx, mode, base, fill_var, unsaved_clear, now, closed>>

-----------------------------------------------------------------------------
(* Mask export *)

RGB(c) == <<c[1], c[2], c[3]>>

\* the colours save() collects for a category: the pens whose label matches it
MatchingColors(labels, defect) ==
    SelectSeq(PenOrder, LAMBDA k : Lower(Strip(labels[k])) = Lower(Strip(defect)))

\* the tolerance test with the window's edge left out
WithinTolStrict(c, pc) ==
    /\ Abs(c[1] - pc[1]) < COLOR_TOL
    /\ Abs(c[2] - pc[2]) < COLOR_TOL
    /\ Abs(c[3] - pc[3]) < COLOR_TOL

\* abs(r - pr) <= COLOR_TOL and abs(g - pg) <= COLOR_TOL and abs(b - pb) <= COLOR_TOL
WithinTol(c, pc) ==
    /\ Abs(c[1] - pc[1]) <= COLOR_TOL
    /\ Abs(c[2] - pc[2]) <= COLOR_TOL
    /\ Abs(c[3] - pc[3]) <= COLOR_TOL

\* what the pixel loop of save() leaves at one pixel of mask_rgba
MaskPixel(c, pens) ==
    IF c[4] = 0 THEN TRANSPARENT
    ELSE LET hits == {i \in 1..Len(pens) : WithinTol(c, PenColor(pens[i]))}
         IN  IF hits = {} THEN TRANSPARENT
             ELSE LET first == CHOOSE i \in hits : \A j \in hits : i <= j
                      pc == PenColor(pens[first])
                  IN  <<pc[1], pc[2], pc[3], c[4]>>

\* mask_rgba of save() for one category
MaskRGBA(lay, labels, defect) ==
    [w |-> lay.w, h |-> lay.h,
     px |-> [p \in Pix(lay.w, lay.h) |->
                MaskPixel(lay.px[p], MatchingColors(labels, defect))]]

\* Pillow's blend of one channel v over black with mask value a
MulDiv255(v, a) == LET tmp == v * a + 128 IN ((tmp \div 256) + tmp) \div 256

\* rgb_mask.paste(mask_rgba, mask=alpha) on a black image, then the legend:
\* the text starts at x = LEGEND_X, outside rasters at most LEGEND_X wide
Flatten(img) ==
    [w |-> img.w, h |-> img.h,
     px |-> [p \in Pix(img.w, img.h) |->
                LET c == img.px[p]
                IN  <<MulDiv255(c[1], c[4]), MulDiv255(c[2], c[4]), MulDiv255(c[3], c[4])>>]]

\* f"{input_folder}-*-{defect}-{base_name}.png"
MaskPattern(defect, base_name) ==
    InputFolder \o <<"-", "*", "-">> \o defect \o <<"-">> \o base_name \o PNG

\* f"{input_folder}-{inspector}-{file_ts}-{defect}-{base_name}.png"
MaskName(insp, ts, defect, base_name) ==
    InputFolder \o <<"-">> \o insp \o <<"-">> \o ts \o <<"-">> \o defect
        \o <<"-">> \o base_name \o PNG

\* f"{input_folder}*-COMBINED-{base_name}.png"
CombinedPattern(base_name) ==
    InputFolder \o <<"*", "-">> \o COMBINED \o <<"-">> \o base_name \o PNG

\* f"{input_folder}-{inspector}-{file_ts}-{all_defects}-COMBINED-{base_name}.png"
CombinedName(insp, ts, sels, base_name) ==
    InputFolder \o <<"-">> \o insp \o <<"-">> \o ts \o <<"-">> \o Join(sels, <<"_">>)
        \o <<"-">> \o COMBINED \o <<"-">> \o base_name \o PNG

\* sels of save() taken as the whole vocabulary
SelsAll == defects

\* sels of save(): the selected defects, or ["good"]
Sels == IF Selected(defects, defect_vars) = <<>> THEN <<good>>
        ELSE Selected(defects, defect_vars)

\* self.inspector_var.get().strip() or "unknown"
InspectorName == IF Strip(inspector_var) = <<>> THEN unknown ELSE Strip(inspector_var)

\* the category directories after the loop of save(): per selected category the
\* files matching its pattern are removed and the new mask is written
SaveCategoryFiles(files, sels, insp, ts, im, lay, labels) ==
    LET cats == SeqToSet(sels)
        removed == {f \in files : f.dir \in cats
                                   /\ GlobMatch(MaskPattern(f.dir, im.base), f.name)}
        written == {[dir |-> d, name |-> MaskName(insp, ts, d, im.base),
                     img |-> Flatten(MaskRGBA(lay, labels, d))] : d \in cats}
        kept == {f \in files \ removed :
                    ~\E g \in written : g.dir = f.dir /\ g.name = f.name}
    IN  kept \cup written

\* the masks directory after save(): combined files of the image removed, one written
SaveCombined(masks, sels, insp, ts, im, lay) ==
    LET pattern == CombinedPattern(im.base)
        kept == SelectSeq(masks, LAMBDA f : ~GlobMatch(pattern, f.name))
    IN  WriteFile(kept, CombinedName(insp, ts, sels, im.base), lay)

\* the Save button: save
Save ==
    LET im == image_paths[idx + 1]
    IN  /\ ~closed
        /\ fill_var' = FALSE
        /\ cat_dirs' = SaveCategoryFiles(cat_dirs, Sels, InspectorName, FileTs(now),
                                         im, layer, pen_vars)
        /\ masks_dir' = SaveCombined(masks_dir, Sels, InspectorName, FileTs(now), im, layer)
        /\ metadata' = MetaPut(metadata, MetaKey(im), MetaEntry(DispTs(now)))
        /\ save_ts_var' = DispTs(now)
        /\ Ghost("save")
        /\ UNCHANGED <<envVars, canvasVars, defect_vars, pen_vars, inspector_var,
                       note_text, tray_var, penVars, viewVars, pr,
                       histVars, strokeVars, layer,
                       idx, mode, base, unsaved_clear, now, closed>>

-----------------------------------------------------------------------------
(* SpecHist: the history at its full depth.  One 1x1 image; click strokes   *)
(* and fills in draw mode, clear, undo, redo and navigation.  In every      *)
(* specification the operator invokes the panel's commands between pointer  *)
(* gestures, not while the primary button is held on the canvas.            *)

ImgA(w, h) == [base |-> <<"a">>, ext |-> PNG, w |-> w, h |-> h]
ImgB(w, h) == [base |-> <<"b">>, ext |-> PNG, w |-> w, h |-> h]

NoMeta == [k \in {} |-> <<>>]

HistPoints == {<<0, 0>>}

InitHist == InitWith(<<ImgA(1, 1)>>, <<chip>>, <<>>, {}, NoMeta, 4, 4, 0)

NextHist ==
    \/ \E p \in HistPoints : OnLeftPress(p[1], p[2])
    \/ OnLeftRelease
    \/ ~drawing /\ ToggleFill
    \/ ~drawing /\ ClearAll
    \/ ~drawing /\ Undo
    \/ ~drawing /\ Redo
    \/ ~drawing /\ NextImage

SpecHist == InitHist /\ [][NextHist]_vars

-----------------------------------------------------------------------------
(* SpecEdit: the editing handlers in every mode on one 1x1 image, with a    *)
(* pointer position inside the image and one outside it; the operator stops *)
(* committing once the history holds MaxEditHist entries.                   *)

MaxEditHist == 3

EditPoints == {<<0, 0>>, <<2, 0>>}

InitEdit == InitWith(<<ImgA(1, 1)>>, <<chip>>, <<>>, {}, NoMeta, 4, 4, 0)

NextEdit ==
    \/ \E p \in EditPoints :
          /\ fill_var => Len(history) < MaxEditHist
          /\ OnLeftPress(p[1], p[2])
    \/ \E p \in EditPoints : OnLeftMove(p[1], p[2])
    \/ /\ (drawing /\ mode = "draw" /\ ~fill_var) => Len(history) < MaxEditHist
       /\ OnLeftRelease
    \/ ~drawing /\ ToggleFill
    \/ \E m \in {"draw", "erase"} : ~drawing /\ SetMode(m)
    \/ ~drawing /\ ClearAll
    \/ ~drawing /\ Undo
    \/ ~drawing /\ Redo

SpecEdit == InitEdit /\ [][NextEdit]_vars

-----------------------------------------------------------------------------
(* SpecNav: two 1x1 images and an empty output directory; click strokes,    *)
(* clear, explicit saves at advancing clock readings, navigation both ways  *)
(* and closing the window.                                                  *)

MaxNavHist == 2

MaxNow == 1

InitNav == InitWith(<<ImgA(1, 1), ImgB(1, 1)>>, <<chip>>, <<>>, {}, NoMeta, 4, 4, 0)

NextNav ==
    \/ OnLeftPress(0, 0)
    \/ /\ drawing => Len(history) < MaxNavHist
       /\ OnLeftRelease
    \/ ~drawing /\ ClearAll
    \/ ~drawing /\ NextImage
    \/ ~drawing /\ PrevImage
    \/ ~drawing /\ Save
    \/ ~drawing /\ OnClose
    \/ Tick(MaxNow)

SpecNav == InitNav /\ [][NextNav]_vars

-----------------------------------------------------------------------------
(* SpecSave: explicit saves of one 1x1 image whose Overlay was loaded from  *)
(* a persisted continuity artifact.  The artifact's pixel is drawn from     *)
(* Palette: colours at the edge of and just outside a pen's tolerance       *)
(* window, as resampling a persisted overlay produces them.                 *)

Palette == {<<245, 10, 10, 128>>, <<244, 0, 0, 255>>, <<0, 0, 255, 255>>}

Persisted(im, c) ==
    <<[name |-> ContinuityName(im.base),
       img |-> [w |-> 1, h |-> 1, px |-> (<<0, 0>> :> c)]]>>

InitSave ==
    \E c \in Palette :
        InitWith(<<ImgA(1, 1)>>, <<chip, scratch>>, Persisted(ImgA(1, 1), c), {}, NoMeta,
                 4, 4, 0)

NextSave ==
    \/ \E d \in {chip, scratch} : ToggleDefect(d)
    \/ \E name \in {<<>>, <<"x">>} : name # inspector_var /\ SetInspector(name)
    \/ Tick(MaxNow)
    \/ Save

SpecSave == InitSave /\ [][NextSave]_vars

-----------------------------------------------------------------------------
(* SpecResave: repeated explicit saves of one image whose file name holds   *)
(* square brackets, under changing inspector names, clock readings and      *)
(* category selections; the operator saves at most MaxResave times.         *)

MaxResave == 3

ImgK(w, h) == [base |-> <<"b", "[", "1", "]">>, ext |-> PNG, w |-> w, h |-> h]

InitResave == InitWith(<<ImgK(1, 1)>>, <<chip>>, <<>>, {}, NoMeta, 4, 4, 0)

NextResave ==
    \/ ToggleDefect(chip)
    \/ \E name \in {<<>>, <<"x">>} : name # inspector_var /\ SetInspector(name)
    \/ Tick(MaxNow)
    \/ Len(masks_dir) < MaxResave /\ Save

SpecResave == InitResave /\ [][NextResave]_vars

-----------------------------------------------------------------------------
(* SpecZoom: the zoom buttons, navigation between a small and a wide image  *)
(* and window resizes.  Lengths are scaled down by 100: the wide image      *)
(* stands for one 2400 pixels wide, the canvas for one 200 or 400 wide.     *)

CanvasSizes == {<<2, 2>>, <<4, 4>>}

InitZoom == InitWith(<<ImgA(1, 1), ImgB(24, 1)>>, <<chip>>, <<>>, {}, NoMeta, 4, 4, 0)

NextZoom ==
    \/ SetZoom(ZOOM_IN)
    \/ SetZoom(ZOOM_OUT)
    \/ NextImage
    \/ \E c \in CanvasSizes : ResizeCanvas(c[1], c[2])

SpecZoom == InitZoom /\ [][NextZoom]_vars

-----------------------------------------------------------------------------
(* SpecXform: pointer events on a panned and zoomed 2x1 image.  The         *)
(* operator pans along x by at most MaxPan, zooms one step in or out of     *)
(* the fitted zoom, and stops committing at MaxXformHist history entries;   *)
(* strokes and zoom steps happen while the secondary button is up.          *)

MaxPan == 2

MaxXformHist == 2

XformPoints == {<<0, 0>>, <<1, 0>>, <<3, 0>>}

InitXform == InitWith(<<ImgA(2, 1)>>, <<chip>>, <<>>, {}, NoMeta, 4, 4, 0)

NextXform ==
    \/ \E p \in XformPoints : pr = <<>> /\ OnLeftPress(p[1], p[2])
    \/ \E p \in XformPoints : OnLeftMove(p[1], p[2])
    \/ /\ drawing => Len(history) < MaxXformHist
       /\ OnLeftRelease
    \/ \E p \in XformPoints : ~drawing /\ OnRightPress(p[1], p[2])
    \/ \E p \in XformPoints :
          /\ ~drawing /\ pr # <<>>
          /\ Abs(pan_x + (p[1] - pr[1])) <= MaxPan
          /\ OnRightMove(p[1], p[2])
    \/ ~drawing /\ OnRightRelease
    \/ ~drawing /\ pr = <<>> /\ zoom = ZoomUnit /\ SetZoom(ZOOM_IN)
    \/ ~drawing /\ pr = <<>> /\ zoom = ZoomUnit /\ SetZoom(ZOOM_OUT)

SpecXform == InitXform /\ [][NextXform]_vars

-----------------------------------------------------------------------------
(* SpecFill: clicks in fill mode on one 2x2 image at the fitted zoom 1.0.   *)
(* The Overlay is loaded from a persisted artifact whose pixels are         *)
(* transparent or pen1's colour; the operator picks pen1 or pen2, clicks    *)
(* on the canvas only while fill mode is on (inside the image or right of   *)
(* it) and stops filling at MaxFillHist history entries.                    *)

MaxFillHist == 3

FillPoints == {<<0, 0>>, <<1, 0>>, <<0, 1>>, <<1, 1>>, <<2, 0>>}

FillPatterns ==
    {[w |-> 2, h |-> 2, px |-> f] :
        f \in [Pix(2, 2) -> {TRANSPARENT, PenColor("pen1")}]}

InitFill ==
    \E img \in FillPatterns :
        InitWith(<<ImgA(2, 2)>>, <<chip>>,
                 <<[name |-> ContinuityName(<<"a">>), img |-> img]>>, {}, NoMeta, 4, 4, 0)

NextFill ==
    \/ \E p \in FillPoints :
          /\ fill_var /\ Len(history) < MaxFillHist
          /\ OnLeftPress(p[1], p[2])
    \/ \E p \in FillPoints : fill_var /\ lastOp = "fill" /\ OnLeftMove(p[1], p[2])
    \/ fill_var /\ lastOp \in {"fill", "move_noop"} /\ OnLeftRelease
    \/ ToggleFill
    \/ \E k \in {"pen1", "pen2"} : k # current_pen /\ SelectPen(k)

SpecFill == InitFill /\ [][NextFill]_vars

-----------------------------------------------------------------------------
(* SpecSize: two images of different sizes, the first 1x1 and the second    *)
(* 2x1, with a persisted artifact of the other image's size for one of      *)
(* them; click strokes, clear, undo, redo and navigation both ways, up to   *)
(* MaxSizeHist history entries.                                             *)

MaxSizeHist == 2

PersistedSized(im, w, h) ==
    <<[name |-> ContinuityName(im.base),
       img |-> [w |-> w, h |-> h, px |-> [p \in Pix(w, h) |-> PenColor("pen2")]]]>>

InitSize ==
    \E masks0 \in {PersistedSized(ImgA(1, 1), 2, 1), PersistedSized(ImgB(2, 1), 1, 1)} :
        InitWith(<<ImgA(1, 1), ImgB(2, 1)>>, <<chip>>, masks0, {}, NoMeta, 4, 4, 0)

NextSize ==
    \/ \E p \in {<<0, 0>>, <<1, 0>>} : OnLeftPress(p[1], p[2])
    \/ /\ drawing => Len(history) < MaxSizeHist
       /\ OnLeftRelease
    \/ ~drawing /\ ClearAll
    \/ ~drawing /\ Undo
    \/ ~drawing /\ Redo
    \/ ~drawing /\ NextImage
    \/ ~drawing /\ PrevImage

SpecSize == InitSize /\ [][NextSize]_vars

-----------------------------------------------------------------------------
(* SpecLabels: category toggles, clear, save and navigation (which reloads  *)
(* the only image, 1x1) with the vocabulary chip, dent; "dent" is outside   *)
(* the pen table.                                                           *)
(* metadata.json is absent or holds the record an earlier session of the    *)
(* program wrote for the image when its defects configuration was           *)
(* chip, scratch and scratch was selected.                                  *)

dent == <<"d", "e", "n", "t">>

EarlierMeta ==
    (MetaKey(ImgA(1, 1)) :>
        [note |-> <<>>, inspector |-> <<>>, tray |-> UpTo(InputFolder, "_"),
         defects |-> <<scratch>>,
         pen_labels |-> UpdatePenLabels((chip :> FALSE) @@ (scratch :> TRUE)),
         last_saved |-> never])

InitLabels ==
    \E meta0 \in {NoMeta, EarlierMeta} :
        InitWith(<<ImgA(1, 1)>>, <<chip, dent>>, <<>>, {}, meta0, 4, 4, 0)

NextLabels ==
    \/ \E d \in {chip, dent} : ToggleDefect(d)
    \/ ClearAll
    \/ Save
    \/ NextImage

SpecLabels == InitLabels /\ [][NextLabels]_vars

-----------------------------------------------------------------------------
(* SpecClose: stroke gestures in draw and in erase mode over an 11x1 image  *)
(* whose persisted Overlay is painted throughout. The pointer leaves the    *)
(* image downwards, runs to the right and is released there, so that only   *)
(* the closing segment back to the start point crosses the image's right    *)
(* end.                                                                     *)

MaxCloseHist == 2

ClosePoints == {<<0, 0>>, <<0, 30>>, <<30, 30>>}

InitClose == InitWith(<<ImgA(11, 1)>>, <<chip>>, PersistedSized(ImgA(11, 1), 11, 1),
                      {}, NoMeta, 40, 40, 0)

NextClose ==
    \/ \E p \in ClosePoints : OnLeftPress(p[1], p[2])
    \/ \E p \in ClosePoints : OnLeftMove(p[1], p[2])
    \/ /\ (drawing /\ mode = "draw") => Len(history) < MaxCloseHist
       /\ OnLeftRelease
    \/ \E m \in {"draw", "erase"} : ~drawing /\ m # mode /\ SetMode(m)

SpecClose == InitClose /\ [][NextClose]_vars

-----------------------------------------------------------------------------
(* SpecPan: secondary-button drags interleaved with stroke gestures in both *)
(* modes and with the zoom-in button, over a 2x1 image. The secondary       *)
(* button may go down, move and come up while a stroke is in progress.      *)

MaxPanHist == 2

PanPoints == {<<0, 0>>, <<1, 0>>}

InitPan == InitWith(<<ImgA(2, 1)>>, <<chip>>, <<>>, {}, NoMeta, 4, 4, 0)

NextPan ==
    \/ \E p \in PanPoints : pr = <<>> /\ OnLeftPress(p[1], p[2])
    \/ \E p \in PanPoints : drawing /\ OnLeftMove(p[1], p[2])
    \/ /\ (drawing /\ mode = "draw") => Len(history) < MaxPanHist
       /\ OnLeftRelease
    \/ \E p \in PanPoints : pr = <<>> /\ OnRightPress(p[1], p[2])
    \/ \E p \in PanPoints :
          /\ pr # <<>>
          /\ Abs(pan_x + (p[1] - pr[1])) <= MaxPan
          /\ OnRightMove(p[1], p[2])
    \/ OnRightRelease
    \/ \E m \in {"draw", "erase"} : ~drawing /\ pr = <<>> /\ m # mode /\ SetMode(m)
    \/ ~drawing /\ pr = <<>> /\ zoom = ZoomUnit /\ SetZoom(ZOOM_IN)

SpecPan == InitPan /\ [][NextPan]_vars

-----------------------------------------------------------------------------
(* SpecCmd: the fill check box and every command of the panel, the canvas   *)
(* wheel and the settings menu, over one 1x1 image (navigation comes back   *)
(* to it), with fill clicks that give undo and redo something to do.        *)

MaxCmdHist == 2

InitCmd == InitWith(<<ImgA(1, 1)>>, <<chip>>, <<>>, {}, NoMeta, 4, 4, 0)

NextCmd ==
    \/ fill_var /\ Len(history) < MaxCmdHist /\ OnLeftPress(0, 0)
    \/ ToggleFill
    \/ PrevImage
    \/ NextImage
    \/ ClearAll
    \/ Undo
    \/ Redo
    \/ Save
    \/ \E f \in {ZOOM_IN, ZOOM_OUT} : zoom = ZoomUnit /\ SetZoom(f)
    \/ \E f \in {ZOOM_IN, ZOOM_OUT}, g \in BOOLEAN :
          zoom = ZoomUnit /\ OnCanvasWheel(f, g)
    \/ \E k \in {"pen1", "pen2"} : k # current_pen /\ SelectPen(k)
    \/ ExportExcel
    \/ ExportCsv
    \/ ChooseInputFolder
    \/ ChooseDefectsConfig

SpecCmd == InitCmd /\ [][NextCmd]_vars

-----------------------------------------------------------------------------
(* SpecWrap: navigation in both directions over three 1x1 images, entered   *)
(* with strokes committed or in progress, entries on the Redo stack and a   *)
(* panned view.  No clear happens, so every navigation writes the           *)
(* continuity artifact of the image it leaves, the newest file on disk.     *)

MaxWrapHist == 2

ImgC(w, h) == [base |-> <<"c">>, ext |-> PNG, w |-> w, h |-> h]

WrapPoints == {<<0, 0>>, <<1, 0>>}

InitWrap == InitWith(<<ImgA(1, 1), ImgB(1, 1), ImgC(1, 1)>>, <<chip>>, <<>>, {}, NoMeta,
                     4, 4, 0)

NextWrap ==
    \/ pr = <<>> /\ redo_stack = <<>> /\ OnLeftPress(0, 0)
    \/ /\ drawing => Len(history) < MaxWrapHist
       /\ OnLeftRelease
    \/ ~drawing /\ Undo
    \/ \E p \in WrapPoints : ~drawing /\ pr = <<>> /\ pan_x = 0 /\ OnRightPress(p[1], p[2])
    \/ \E p \in WrapPoints : pr # <<>> /\ pan_x = 0 /\ OnRightMove(p[1], p[2])
    \/ OnRightRelease
    \/ NextImage
    \/ PrevImage

SpecWrap == InitWrap /\ [][NextWrap]_vars

-----------------------------------------------------------------------------
(* Claims *)

Top(h) == h[Len(h)]

\* C1: in every reachable state the History Stack holds at most 50 entries,
\* whatever strokes, fills, clears, undos, redos and navigations came before.
C1_HistoryAtMost50 == Len(history) <= HISTORY_MAX

\* C1 witness: a commit on a full history evicted the entry it started with
\* (no clear and no navigation happened, and the first entry is no longer blank).
C1_Witness ==
    /\ Len(history) = HISTORY_MAX
    /\ lastOp \in {"fill", "release_draw"}
    /\ masks_dir = <<>> /\ ~unsaved_clear
    /\ history[1] # Blank(base.w, base.h)

\* C2 as claimed: right after a completed stroke gesture (draw or erase), a
\* flood fill or a clear, the Overlay equals the last History entry.
C2_OverlayIsTopAfterCommit ==
    lastOp \in {"release_draw", "release_erase", "fill", "clear"} => layer = Top(history)

C4_ContinuityEqualsOverlay ==
    lastOp \in {"next", "prev", "close"} =>
        LET n == Len(image_paths)
            left == CASE lastOp = "next" -> (idx + n - 1) % n
                      [] lastOp = "prev" -> (idx + 1) % n
                      [] OTHER -> idx
        IN  LoadLayer(masks_dir, image_paths[left + 1]) = preLayer

\* C5: a navigation or a close leaves the stored last_saved of every image as
\* it was, an explicit save sets the current image's last_saved to the display
\* timestamp of the save and no other, and nothing else changes any; so the
\* stored last_saved is always that of the image's latest explicit save, or
\* "never".
C5_LastSavedOnlyBySave ==
    [][\A i \in 1..Len(image_paths) :
          LET key == MetaKey(image_paths[i])
          IN  MetaGet(metadata', key).last_saved =
                 IF lastOp' = "save" /\ i = idx + 1 THEN DispTs(now)
                 ELSE MetaGet(metadata, key).last_saved]_vars

\* C5 witness: an image saved at an earlier clock reading was later left by a
\* navigation that flushed its continuity artifact and metadata record.
C5_Witness ==
    /\ lastOp \in {"next", "prev"}
    /\ idx = 1
    /\ MetaKey(image_paths[1]) \in DOMAIN metadata
    /\ metadata[MetaKey(image_paths[1])].last_saved \notin {never, DispTs(now)}
    /\ \E i \in 1..Len(masks_dir) :
          /\ masks_dir[i].name = ContinuityName(image_paths[1].base)
          /\ masks_dir[i].img = preLayer
          /\ preLayer # Blank(1, 1)

C7_OneMaskPerCategory ==
    lastOp = "save" =>
        LET im == image_paths[idx + 1]
            IsMaskOf(name, d) ==
                LET pre == InputFolder \o <<"-">>
                    suf == <<"-">> \o d \o <<"-">> \o im.base \o PNG
                IN  /\ Len(name) >= Len(pre) + Len(suf)
                    /\ SubSeq(name, 1, Len(pre)) = pre
                    /\ SubSeq(name, Len(name) - Len(suf) + 1, Len(name)) = suf
            chosen == {d \in DOMAIN defect_vars : defect_vars[d]}
            cats == IF chosen = {} THEN {good} ELSE chosen
        IN  \A d \in cats :
                Cardinality({f \in cat_dirs : f.dir = d /\ IsMaskOf(f.name, d)}) = 1

\* C8: an explicit save leaves a mask file of its own name in the directory of
\* every selected category ("good" when none is selected) and adds no file to
\* the directory of any other category.
C8_SaveWritesSelectedOnly ==
    [][lastOp' = "save" =>
          LET im == image_paths[idx + 1]
              chosen == {d \in DOMAIN defect_vars : defect_vars[d]}
              cats == IF chosen = {} THEN {good} ELSE chosen
          IN  /\ \A d \in cats :
                    \E f \in cat_dirs' :
                        /\ f.dir = d
                        /\ f.name = MaskName(InspectorName, FileTs(now), d, im.base)
              /\ \A f \in cat_dirs' : f.dir \notin cats => f \in cat_dirs]_vars

\* C8 witness: a save with only chip selected wrote the chip mask while the
\* scratch directory, filled by an earlier save, got no file of this save.
C8_Witness ==
    /\ lastOp = "save"
    /\ defect_vars[chip] /\ ~defect_vars[scratch]
    /\ \E f \in cat_dirs :
          f.dir = chip /\ f.name = MaskName(InspectorName, FileTs(now), chip, <<"a">>)
    /\ \E f \in cat_dirs : f.dir = scratch
    /\ \A f \in cat_dirs :
          f.dir = scratch => f.name # MaskName(InspectorName, FileTs(now), scratch, <<"a">>)

\* C9 as claimed: in every reachable state the zoom factor lies in
\* [0.1, 10.0], after zoom requests, navigations and fits to the canvas.
C9_ZoomInRange == zoom >= ZOOM_MIN /\ zoom <= ZOOM_MAX

\* C10 as claimed: the image coordinate a primary-button press or motion at
\* (sx, sy) uses is floor((sx - px) / z), floor((sy - py) / z), also where
\* sx - px or sy - py is negative.
C10_FloorTransform ==
    (lastOp \in {"press", "move"}) =>
        last_pt = <<((ev[1] - pan_x) * ZoomUnit) \div zoom,
                    ((ev[2] - pan_y) * ZoomUnit) \div zoom>>

\* C11: a flood fill seeded at a pixel of the image recolours to the active
\* pen's colour exactly the pixels 4-connected to the seed through pixels of
\* the seed's original colour and leaves every other pixel as it was; on a
\* fully transparent Overlay that is the whole image.
C11_FillRecoloursComponent ==
    [][(lastOp' = "fill" /\ ev' \in Pix(layer.w, layer.h)) =>
          LET all == Pix(layer.w, layer.h)
              Adjacent(p, q) == Abs(p[1] - q[1]) + Abs(p[2] - q[2]) = 1
              Step(S) == S \cup {q \in all : /\ layer.px[q] = layer.px[ev']
                                               /\ \E p \in S : Adjacent(p, q)}
              component == Step(Step(Step({ev'})))
          IN  /\ \A q \in all :
                    layer'.px[q] = IF q \in component THEN pen_color ELSE layer.px[q]
              /\ layer = Blank(layer.w, layer.h) =>
                    \A q \in all : layer'.px[q] = pen_color]_vars

\* C11 witness: a fill seeded on a transparent pixel whose diagonal neighbour
\* is transparent too, between two pixels of another colour, recoloured the
\* seed and left the diagonal pixel transparent.
C11_Witness ==
    /\ lastOp = "fill" /\ ev = <<0, 0>>
    /\ Len(history) = 2
    /\ history[1].px[<<0, 0>>] = TRANSPARENT /\ history[1].px[<<1, 1>>] = TRANSPARENT
    /\ history[1].px[<<1, 0>>] = PenColor("pen1")
    /\ history[1].px[<<0, 1>>] = PenColor("pen1")
    /\ pen_color = PenColor("pen2")
    /\ layer.px[<<0, 0>>] = PenColor("pen2") /\ layer.px[<<1, 1>>] = TRANSPARENT

\* C12: a fill whose seed pixel already has the active pen's colour, and so a
\* fill repeated at the same seed, leaves every Overlay pixel unchanged.
C12_FillIdempotent ==
    [][lastOp' = "fill" =>
          /\ (ev' \in Pix(layer.w, layer.h) /\ layer.px[ev'] = pen_color) => layer' = layer
          /\ (lastOp = "fill" /\ ev' = ev) => layer' = layer]_vars

\* C12 witness: a fill that changed the Overlay was repeated at the same seed,
\* beside a pixel of another colour, and changed nothing.
C12_Witness ==
    /\ lastOp = "fill" /\ Len(history) = 3
    /\ history[2] # history[1] /\ history[3] = history[2] /\ layer = history[3]
    /\ \E q \in Pix(layer.w, layer.h) : layer.px[q] # pen_color

\* C18: a primary press in fill mode appends one History entry holding the
\* filled Overlay and leaves the engine idle; the motion and release events
\* that follow in fill mode change neither the Overlay nor the History nor
\* the Redo Stack and leave the engine idle.
C18_FillClickCommitsOnce ==
    [][/\ lastOp' = "fill" =>
             /\ Len(history') = Len(history) + 1
             /\ history'[Len(history')] = layer'
             /\ SubSeq(history', 1, Len(history)) = history
             /\ ~drawing'
       /\ (fill_var /\ ~drawing /\ lastOp' \in {"move", "move_noop", "release_draw",
                                                 "release_idle", "release_erase",
                                                 "release_fill"}) =>
             /\ layer' = layer /\ history' = history /\ redo_stack' = redo_stack
             /\ ~drawing']_vars

\* C18 witness: the release of a fill click that changed the Overlay arrived
\* after a motion event; the History holds the one entry the fill appended.
C18_Witness ==
    /\ lastOp = "release_idle" /\ fill_var /\ ~drawing
    /\ Len(history) = 2 /\ layer = history[2] /\ layer # history[1]
    /\ ev # <<>>

\* C13: in every reachable state the Overlay has the width and height of the
\* active base image and a pixel at each of its positions.
C13_OverlaySizeIsImageSize ==
    /\ layer.w = base.w /\ layer.h = base.h
    /\ base.w = image_paths[idx + 1].w /\ base.h = image_paths[idx + 1].h
    /\ DOMAIN layer.px = Pix(base.w, base.h)

\* C13 witness: a navigation loaded a persisted artifact of another size, it
\* was resized to the image, and a stroke, an undo and a redo followed.
C13_Witness ==
    /\ lastOp \in {"redo", "undo_redo"}
    /\ \E i \in 1..Len(masks_dir) :
          /\ masks_dir[i].name = ContinuityName(image_paths[idx + 1].base)
          /\ masks_dir[i].img.w # base.w
    /\ history[1].px[<<0, 0>>] = PenColor("pen2")
    /\ layer.w = base.w

C15_SavesWriteActiveRecordOnly ==
    [][LET active == MetaKey(image_paths[idx + 1])
       IN  lastOp' \in {"save", "next", "prev", "close"} =>
              /\ DOMAIN metadata' \ {active} = DOMAIN metadata \ {active}
              /\ \A k \in DOMAIN metadata \ {active} : metadata'[k] = metadata[k]]_vars

\* C15 witness: the second image was saved explicitly, or left with a
\* continuity save, while the store held a record of the first image with an
\* earlier save time, and that record is still there.
C15_Witness ==
    LET first == MetaKey(image_paths[1])
        second == MetaKey(image_paths[2])
    IN  /\ \/ lastOp = "save" /\ idx = 1
           \/ lastOp \in {"next", "prev"} /\ idx = 0 /\ ~(preLayer = Blank(1, 1))
        /\ {first, second} \subseteq DOMAIN metadata
        /\ metadata[first].last_saved = DispTs(0)
        /\ metadata[second].last_saved = DispTs(1)

\* C16: a stroke gesture, in draw mode and in erase mode alike, appends no
\* History entry during its moves and exactly one, the Overlay it leaves, at
\* its pointer-up, after which no stroke is in progress.
C16_OneEntryPerGesture ==
    [][/\ lastOp' = "move" => history' = history
       /\ lastOp' \in {"release_draw", "release_erase"} =>
              /\ history' = Append(history, layer')
              /\ ~drawing']_vars

\* C17: every pointer-up that ends a stroke gesture draws one final segment
\* from the gesture's last point to its start point, in the gesture's colour
\* and width (the pen's in draw mode, transparent and the eraser's in erase
\* mode).
C17_ClosingSegmentAlways ==
    [][lastOp' \in {"release_draw", "release_erase"} =>
          layer' = DrawLine(layer, last_pt, stroke_start,
                            IF mode = "draw" THEN pen_color ELSE TRANSPARENT,
                            IF mode = "draw" THEN PEN_WIDTH ELSE ERASE_WIDTH)]_vars

\* C19: a secondary-button press, move or release leaves the Overlay, the
\* History, the Redo stack, the zoom, the mode and the stroke-in-progress flag
\* as they were; a move adds the pointer's displacement since the previous
\* secondary-button event to the pan offset, a press or release leaves the
\* offset alone.
C19_SecondaryButtonPansOnly ==
    [][lastOp' \in {"right_press", "right_move", "right_release"} =>
          /\ UNCHANGED <<layer, history, redo_stack, zoom, mode, drawing>>
          /\ IF lastOp' = "right_move"
             THEN /\ pan_x' = pan_x + (pr'[1] - pr[1])
                  /\ pan_y' = pan_y + (pr'[2] - pr[2])
             ELSE UNCHANGED <<pan_x, pan_y>>]_vars

\* C19 witness: a second secondary-button move brought the pan offset to 2,
\* one pixel per move, while an erase stroke was in progress at a raised zoom
\* with a committed stroke in History.
C19_Witness ==
    /\ lastOp = "right_move"
    /\ pan_x = 2
    /\ drawing
    /\ mode = "erase"
    /\ zoom # ZoomUnit
    /\ Len(history) > 1

\* C20: fill mode is off right after prev, next, clear, undo, redo, save, a
\* zoom by button or by wheel, a pen selection, a tabular export and a
\* settings-menu command.
C20_CommandsClearFillMode ==
    lastOp \in {"prev", "next", "clear", "undo", "undo_noop", "redo", "undo_redo",
                "redo_noop", "save", "set_zoom", "wheel", "select_pen",
                "export_excel", "export_csv",
                "choose_input_folder", "choose_defects_config"} => ~fill_var

\* C21: the Draw and Erase commands leave fill mode as it was; invoked while
\* fill mode is on, they leave it on.
C21_ModeTogglesKeepFillMode ==
    [][lastOp' = "set_mode" => fill_var' = fill_var]_vars

\* C22: an undo on a History of one entry and a redo on an empty Redo stack
\* leave the Overlay, the History and the Redo stack as they were, and the
\* History is never empty.
C22_UndoRedoNoOps ==
    /\ [](Len(history) >= 1)
    /\ [][/\ (lastOp' \in {"undo", "undo_noop"} /\ Len(history) = 1) =>
                 UNCHANGED <<layer, history, redo_stack>>
          /\ (lastOp' \in {"redo", "undo_redo", "redo_noop"} /\ redo_stack = <<>>) =>
                 UNCHANGED <<layer, history, redo_stack>>]_vars

\* C22 witness: an undo found a single History entry while the Redo stack
\* still held the entry an earlier undo had popped.
C22_Witness ==
    /\ lastOp = "undo_noop"
    /\ Len(history) = 1
    /\ redo_stack # <<>>

\* C23: the Redo stack is empty right after every completed stroke gesture,
\* in draw mode or in erase mode, after every flood fill and after every
\* clear.
C23_RedoEmptyAfterEdit ==
    lastOp \in {"release_draw", "release_erase", "fill", "clear"} => redo_stack = <<>>

\* C24: right after a clear the Overlay is fully transparent, the History is
\* the single entry equal to it and the Redo stack is empty; an undo or a redo
\* that directly follows the clear changes none of the three.
C24_ClearResets ==
    [][/\ lastOp' = "clear" =>
             /\ \A p \in Pix(base'.w, base'.h) : layer'.px[p] = TRANSPARENT
             /\ layer'.w = base'.w /\ layer'.h = base'.h
             /\ history' = <<layer'>>
             /\ redo_stack' = <<>>
       /\ (lastOp = "clear" /\ lastOp' \in {"undo", "undo_noop", "redo", "undo_redo",
                                             "redo_noop"}) =>
             UNCHANGED <<layer, history, redo_stack>>]_vars

\* C24 witness: a clear emptied the Overlay of an image whose painted
\* continuity artifact, written when the image was last left, is on disk.
C24_Witness ==
    /\ lastOp = "clear"
    /\ layer = Blank(base.w, base.h)
    /\ \E i \in 1..Len(masks_dir) :
          /\ masks_dir[i].name = ContinuityName(image_paths[idx + 1].base)
          /\ masks_dir[i].img # Blank(masks_dir[i].img.w, masks_dir[i].img.h)

\* C25: a navigation moves the index one place with wrap-around at either
\* end of the image list and keeps it inside the list; a prev that directly
\* follows a next, or a next that directly follows a prev, comes back to the
\* image that was left (the one whose continuity artifact is the newest file);
\* and after every navigation the History is the single entry equal to the
\* loaded Overlay, the Redo stack is empty, the pan offset is (0, 0) and no
\* stroke is in progress.
C25_NavigationWraps ==
    [][LET n == Len(image_paths)
       IN  /\ lastOp' \in {"next", "prev"} =>
                 /\ idx' \in 0..(n - 1)
                 /\ history' = <<layer'>>
                 /\ redo_stack' = <<>>
                 /\ pan_x' = 0 /\ pan_y' = 0
                 /\ ~drawing'
           /\ lastOp' = "next" => idx' = IF idx = n - 1 THEN 0 ELSE idx + 1
           /\ lastOp' = "prev" => idx' = IF idx = 0 THEN n - 1 ELSE idx - 1
           /\ (<<lastOp, lastOp'>> \in {<<"next", "prev">>, <<"prev", "next">>}) =>
                 ContinuityName(image_paths[idx' + 1].base) =
                    masks_dir[Len(masks_dir)].name]_vars

\* C25 witness: a prev from the first image arrived at the last one, leaving
\* the first image, on which a stroke had been started, with its painted
\* Overlay as the newest continuity artifact.
C25_Witness ==
    /\ lastOp = "prev"
    /\ idx = Len(image_paths) - 1
    /\ masks_dir[Len(masks_dir)].name = ContinuityName(image_paths[1].base)
    /\ preLayer # Blank(1, 1)
    /\ stroke_start # <<>>

\* C26: the clear-suppression flag is raised only by a clear and lowered only
\* by a navigation; the first navigation after a clear, directly or with
\* other operations between, writes neither disk nor metadata and lowers the
\* flag; every navigation lowers it; and a navigation entered with the
\* flag down, in particular one that directly follows another navigation,
\* writes the continuity artifact of the image it leaves, equal to its
\* Overlay, as the newest file and leaves a metadata record for that image.
C26_ClearSuppressionOneShot ==
    [][LET nav == lastOp' \in {"next", "prev"}
           left == image_paths[idx + 1]
           flushed == /\ masks_dir' # <<>>
                      /\ masks_dir'[Len(masks_dir')] =
                            [name |-> ContinuityName(left.base), img |-> layer]
                      /\ MetaKey(left) \in DOMAIN metadata'
       IN  /\ (unsaved_clear' /\ ~unsaved_clear) => lastOp' = "clear"
           /\ lastOp' = "clear" => unsaved_clear'
           /\ nav => ~unsaved_clear'
           /\ (unsaved_clear /\ ~unsaved_clear') => nav
           /\ (nav /\ (lastOp = "clear" \/ unsaved_clear)) =>
                 UNCHANGED <<masks_dir, cat_dirs, metadata>>
           /\ (nav /\ lastOp \in {"next", "prev"}) => flushed
           /\ (nav /\ ~unsaved_clear) => flushed]_vars

\* C26 witness: the first image was cleared and left without a continuity
\* save (it has no artifact and no record), and the navigation back from the
\* second image then saved that image's artifact.
C26_Witness ==
    /\ lastOp \in {"next", "prev"}
    /\ idx = 0
    /\ MetaKey(image_paths[1]) \notin DOMAIN metadata
    /\ Len(masks_dir) = 1
    /\ masks_dir[1].name = ContinuityName(image_paths[2].base)

\* C27: after a save, an Overlay pixel with alpha > 0 whose RGB lies within
\* the tolerance of exactly one label-bound pen's colour shows in the mask
\* written for that pen's category with the pixel's own RGB, weighted by its
\* alpha, also where that RGB differs from the pen's colour.
C27_MaskKeepsPixelRGB ==
    lastOp = "save" =>
        LET im == image_paths[idx + 1]
            Written(d) ==
                {f \in cat_dirs :
                    f.dir = d /\ f.name = MaskName(InspectorName, FileTs(now), d, im.base)}
        IN  \A p \in Pix(layer.w, layer.h) :
                LET c == layer.px[p]
                    bound == {k \in Pens : pen_vars[k] # <<>> /\ WithinTol(c, PenColor(k))}
                IN  (c[4] > 0 /\ Cardinality(bound) = 1) =>
                        LET k == CHOOSE k \in bound : TRUE
                        IN  \E f \in Written(pen_vars[k]) :
                              f.img.px[p] = <<MulDiv255(c[1], c[4]),
                                              MulDiv255(c[2], c[4]),
                                              MulDiv255(c[3], c[4])>>

\* C28: no stored entry is the live Overlay's own buffer, and a pointer
\* press, move or release in draw, erase or fill mode, an undo or a redo
\* leaves the pixels of every entry that stays in the History or in the Redo
\* stack as they were; the entry an undo or a redo moves between the two
\* arrives unchanged.
C28_EntriesImmutable ==
    /\ [](aliases = NoAliases)
    /\ [][lastOp' \in {"press", "press_noop", "fill", "move", "move_noop",
                       "release_draw", "release_erase", "release_idle",
                       "undo", "undo_noop", "redo", "undo_redo", "redo_noop"} =>
             /\ \A i \in 1..Min(Len(history), Len(history')) : history'[i] = history[i]
             /\ \A i \in 1..Min(Len(redo_stack), Len(redo_stack')) :
                   redo_stack'[i] = redo_stack[i]
             /\ lastOp' = "undo" => Top(redo_stack') = Top(history)
             /\ lastOp' \in {"redo", "undo_redo"} => Top(history') = Top(redo_stack)]_vars

\* C28 witness: a move of a stroke changed the Overlay away from the last
\* History entry while the History held more than one entry and the Redo
\* stack held one.
C28_Witness ==
    /\ lastOp = "move"
    /\ Len(history) > 1
    /\ redo_stack # <<>>
    /\ layer # Top(history)
    /\ layer # Top(redo_stack)

\* C29: the History and the Redo stack together never hold more than 50
\* entries; an undo or a redo that acts moves one entry from one to the other
\* and keeps their total; and the total changes only in a commit (a fill or a
\* draw-mode pointer-up), a clear or a load.
C29_TotalAtMost50 ==
    /\ [](Len(history) + Len(redo_stack) <= HISTORY_MAX)
    /\ [][/\ lastOp' = "undo" =>
                 /\ Len(history') = Len(history) - 1
                 /\ Len(redo_stack') = Len(redo_stack) + 1
          /\ lastOp' \in {"redo", "undo_redo"} =>
                 /\ Len(history') = Len(history) + 1
                 /\ Len(redo_stack') = Len(redo_stack) - 1
          /\ Len(history') + Len(redo_stack') # Len(history) + Len(redo_stack) =>
                 lastOp' \in {"fill", "release_draw", "clear", "next", "prev"}]_vars

\* C29 witness: an undo on a full History left 49 entries there and one on
\* the Redo stack.
C29_Witness ==
    /\ lastOp = "undo"
    /\ Len(history) = HISTORY_MAX - 1
    /\ Len(redo_stack) = 1

====
